---- MODULE Spec2Model ----
(***************************************************************************)
(* A model of module3/scripts/s3_file_monitor.py: the watchdog observer    *)
(* delivers created/modified events to S3FileHandler, which uploads the    *)
(* file named by each event to S3 with put_object.                         *)
(*                                                                         *)
(* Threads: the main thread (main, lines 237-316) and the observer thread  *)
(* started by observer.start() (line 299), which takes events from the     *)
(* observer's queue one at a time and calls on_created / on_modified       *)
(* synchronously.  The file system and the S3 store are the environment.   *)
(* Strings are TLA+ strings; Python's 0-based indices become 1-based.      *)
(***************************************************************************)
EXTENDS Naturals, Sequences, FiniteSets, TLC

\* ------------------------------------------------------------------ bounds
\* The number of filesystem notifications delivered in one run.
MaxEvents == 2

\* ------------------------------------------------------- pure functions
\* str.rstrip('/') (line 64).
RECURSIVE RStripSlash(_)
RStripSlash(s) ==
    IF s = "" THEN ""
    ELSE IF SubSeq(s, Len(s), Len(s)) = "/"
         THEN RStripSlash(SubSeq(s, 1, Len(s) - 1))
         ELSE s

\* A variant of NormalizePrefix: a '/' is appended only when none ends the value.
NormalizePrefixAppendIfMissing(s3_prefix) ==
    IF s3_prefix = "" THEN ""
    ELSE IF SubSeq(s3_prefix, Len(s3_prefix), Len(s3_prefix)) = "/" THEN s3_prefix
         ELSE s3_prefix \o "/"

\* self.s3_prefix = s3_prefix.rstrip('/') + '/' if s3_prefix else "" (line 64).
NormalizePrefix(s3_prefix) ==
    IF s3_prefix # "" THEN RStripSlash(s3_prefix) \o "/" ELSE ""

\* str.rfind(c) + 1: the 1-based index of the last c in s, 0 when there is none.
RECURSIVE RFind(_, _)
RFind(s, c) ==
    IF s = "" THEN 0
    ELSE IF SubSeq(s, Len(s), Len(s)) = c
         THEN Len(s)
         ELSE RFind(SubSeq(s, 1, Len(s) - 1), c)

\* Path(file_path).name (line 93): the final path component.
PathName(file_path) == SubSeq(file_path, RFind(file_path, "/") + 1, Len(file_path))

\* Path(file_path).suffix (line 158): the name from its last dot on, when that
\* dot is neither the first nor the last character of the name.
PathSuffix(file_path) ==
    LET name == PathName(file_path)
        i    == RFind(name, ".")
    IN  IF 1 < i /\ i < Len(name) THEN SubSeq(name, i, Len(name)) ELSE ""

UpperCase == "ABCDEFGHIJKLMNOPQRSTUVWXYZ"
LowerCase == "abcdefghijklmnopqrstuvwxyz"

\* str.lower() on one character.
LowerChar(c) ==
    LET hits == {i \in 1..Len(UpperCase) : SubSeq(UpperCase, i, i) = c}
    IN  IF hits = {} THEN c
        ELSE LET i == CHOOSE j \in hits : TRUE IN SubSeq(LowerCase, i, i)

\* str.lower() (line 158).
RECURSIVE Lower(_)
Lower(s) ==
    IF s = "" THEN "" ELSE LowerChar(SubSeq(s, 1, 1)) \o Lower(SubSeq(s, 2, Len(s)))

\* The content_types dictionary (lines 160-179).
content_types ==
    [e \in {".txt", ".json", ".xml", ".html", ".css", ".js", ".jpg", ".jpeg",
            ".png", ".gif", ".pdf", ".doc", ".docx", ".xls", ".xlsx", ".zip",
            ".tar", ".gz"} |->
        CASE e = ".txt"  -> "text/plain"
          [] e = ".json" -> "application/json"
          [] e = ".xml"  -> "application/xml"
          [] e = ".html" -> "text/html"
          [] e = ".css"  -> "text/css"
          [] e = ".js"   -> "application/javascript"
          [] e = ".jpg"  -> "image/jpeg"
          [] e = ".jpeg" -> "image/jpeg"
          [] e = ".png"  -> "image/png"
          [] e = ".gif"  -> "image/gif"
          [] e = ".pdf"  -> "application/pdf"
          [] e = ".doc"  -> "application/msword"
          [] e = ".docx" -> "application/vnd.openxmlformats-officedocument.wordprocessingml.document"
          [] e = ".xls"  -> "application/vnd.ms-excel"
          [] e = ".xlsx" -> "application/vnd.openxmlformats-officedocument.spreadsheetml.sheet"
          [] e = ".zip"  -> "application/zip"
          [] e = ".tar"  -> "application/x-tar"
          [] e = ".gz"   -> "application/gzip"]

\* A variant of GetContentType: the extension is looked up as typed.
GetContentTypeAsTyped(file_path) ==
    IF PathSuffix(file_path) \in DOMAIN content_types
    THEN content_types[PathSuffix(file_path)]
    ELSE "application/octet-stream"

\* S3FileHandler._get_content_type (lines 148-181).
GetContentType(file_path) ==
    LET extension == Lower(PathSuffix(file_path))
    IN  IF extension \in DOMAIN content_types
        THEN content_types[extension]
        ELSE "application/octet-stream"

\* A variant of S3Key: the key keeps the directories of the path.
S3KeyFullPath(prefix, file_path) == prefix \o file_path

\* A variant of S3Key: a file of a subdirectory keeps its path below the watch
\* root in the key.
S3KeyRelative(prefix, file_path) ==
    IF RFind(file_path, "/") = 0 THEN prefix \o PathName(file_path)
    ELSE prefix \o file_path

\* s3_key = self.s3_prefix + file_name (lines 93, 97).
S3Key(prefix, file_path) == prefix \o PathName(file_path)

\* ------------------------------------------------------------ environment
\* The runs checked: the s3_prefix argument (sys.argv[3], line 259) and the
\* regular files that may appear under the watch root, named relative to it.
\* The watch is recursive (line 287): files of subdirectories are reported too.
Configs ==
    {[s3_prefix |-> "up",     files |-> {"a.txt", "d/a.txt"}],
     [s3_prefix |-> "",       files |-> {"a.txt", "b.JSON"}],
     [s3_prefix |-> "logs//", files |-> {"b.JSON", "d/notes"}]}
\* Every file of the runs, and every normalized prefix.
Paths == UNION {cfg.files : cfg \in Configs}
Prefixes == {NormalizePrefix(cfg.s3_prefix) : cfg \in Configs}
\* The key (line 97) and the content type (line 118) of every file of the
\* runs, tabulated once from S3Key and GetContentType.
KeyOf == [prefix \in Prefixes, file_path \in Paths |-> S3Key(prefix, file_path)]
ContentTypeOf == [file_path \in Paths |-> GetContentType(file_path)]
\* A directory of the watched tree.
Dirs == {"d"}
\* What a file holds: one of two contents, or NoFile when it does not exist.
Contents == {"v1", "v2"}
NoFile == "absent"

\* What put_object does: return, or raise ClientError with a code (lines
\* 135-142), or raise another exception such as a connection error (line 145).
PermanentErrors == {"AccessDenied", "NoSuchBucket"}
TransientErrors == {"SlowDown", "ConnectionError"}
Responses == {"ok"} \cup PermanentErrors \cup TransientErrors

\* The retry budget of the design (spec 4.4: "recommended 5").
maxAttempts == 5

VARIABLES
    files,      \* the files that may appear under the watch root in this run
    fs,         \* file -> its content, NoFile when it does not exist
    s3_prefix,  \* self.s3_prefix, set by __init__
    queue,      \* the observer's event queue
    running,    \* the handler calls in progress (records)
    last,       \* what the handler call that returned last did
    store,      \* the bucket: key -> [body, ctype], NoObject when there is none
    emitted,    \* the number of events delivered so far
    count,      \* file -> the events delivered for it, and what became of them
    alive,      \* the observer thread runs (no exception left a handler)
    stopFlag,   \* observer.stop() was called
    watch,      \* the filesystem watch is registered
    mainPc,     \* the main thread: "args", "path", "client", "bucket", "start",
                \* "loop", "joining", "stopped", "failed"
    env,        \* what main found at startup: argc, watch path, client, bucket
    exit,       \* whether the process has exited, and its exit code
    ops,        \* the S3 operations called so far
    probe       \* an input of a pure function, and the result once applied

vars == <<files, fs, s3_prefix, queue, running, last, store, emitted, count, alive, stopFlag, watch, mainPc, env, exit, ops, probe>>

NoObject == [body |-> NoFile, ctype |-> ""]
NoEvent == [id |-> 0, src_path |-> "", kind |-> "", is_directory |-> FALSE,
            busy |-> 0]
NotFound == {"stat_not_found", "open_not_found"}

\* What a returned handler call did: the event, the key and content type it
\* computed, the number of put_object calls it made (calls), the body they
\* carried, how it ended (res) and the number of error records it logged.
Outcome(ev, key, ctype, body, calls, res, errs) ==
    [ev |-> ev, key |-> key, ctype |-> ctype, body |-> body, calls |-> calls,
     res |-> res, errs |-> errs]

\* The startup of main has asked nothing yet.
NoEnv == [argc |-> 0, watch_path |-> "", client |-> "", bucket |-> ""]

\* The process runs; the process has exited with a code.
NotExited == [done |-> FALSE, code |-> 0]
Exited(code) == [done |-> TRUE, code |-> code]

\* A variant of ExitStatus: the usage message is followed by a plain return.
ExitStatusUsageZero(why) == IF why \in {"interrupt", "usage"} THEN 0 ELSE 1

\* The exit code of the process: sys.exit(1) after the usage message (line
\* 255), for a bad watch path (lines 264, 268), for a bucket that does not
\* validate (line 280) and in both except clauses of main (lines 313, 316);
\* 0 when main returns after "File monitor stopped" (line 309).
ExitStatus(why) == IF why = "interrupt" THEN 0 ELSE 1

\* No pure function is being applied.
NoProbe == [fn |-> "none", dir |-> "", stem |-> "", ext |-> "", final |-> "",
            arg |-> "", res |-> "", done |-> FALSE]

\* The process starts (line 237): the arguments fix the prefix the handler
\* will hold (lines 259, 64); nothing is watched, nothing was called.
ProcessInit ==
    /\ \E cfg \in Configs :
         /\ files = cfg.files
         /\ s3_prefix = NormalizePrefix(cfg.s3_prefix)
    /\ fs = [p \in files |-> NoFile]
    /\ stopFlag = FALSE
    /\ queue = <<>>
    /\ running = {}
    /\ last = Outcome(NoEvent, "", "", NoFile, 0, "none", 0)
    /\ store = [k \in {S3Key(s3_prefix, p) : p \in files} |-> NoObject]
    /\ emitted = 0
    /\ count = [p \in files |-> [events |-> 0, puts |-> 0, dropped |-> 0, res |-> "none"]]
    /\ alive = TRUE
    /\ watch = FALSE
    /\ mainPc = "args"
    /\ env = NoEnv
    /\ exit = NotExited
    /\ ops = {}

Init == ProcessInit /\ probe = NoProbe

\* ------------------------------------------------------------ event source
\* The event of the upload (the put_object call) executing for key k, 0 when
\* there is none.
UploadInFlight(k) ==
    LET ups == {h \in running : h.pc = "put" /\ h.key = k}
    IN  IF ups = {} THEN 0 ELSE (CHOOSE h \in ups : TRUE).ev.id

\* The event the observer queues for a notification.  src_path, is_directory and
\* kind are watchdog's.  The rest is bookkeeping: id, the order of delivery;
\* busy, the event whose upload for the same key was executing on arrival (0
\* when there was none).
NewEvent(path, kind, isDir) ==
    [id |-> emitted + 1, src_path |-> path, kind |-> kind, is_directory |-> isDir,
     busy |-> IF isDir THEN 0 ELSE UploadInFlight(S3Key(s3_prefix, path))]

\* The observer queues an event.
Emit(path, kind, isDir) ==
    /\ emitted < MaxEvents
    /\ queue' = Append(queue, NewEvent(path, kind, isDir))
    /\ emitted' = emitted + 1
    /\ count' = IF isDir THEN count ELSE [count EXCEPT ![path].events = @ + 1]

\* The bytes of a file may still be being read by an upload when the file is
\* written again: the body sent is the old or the new content.
RereadBody(p, c) ==
    {running} \cup
    {(running \ {h}) \cup {[h EXCEPT !.body = c]} :
        h \in {x \in running : x.pc = "put" /\ x.ev.src_path = p}}

\* A program creates file p or writes new content to it.  While the watch is
\* registered the observer queues a created or a modified event for it.
FsWrite(p, c) ==
    /\ mainPc \in {"loop", "joining"}
    /\ c # fs[p]
    /\ fs' = [fs EXCEPT ![p] = c]
    /\ IF watch
       THEN Emit(p, IF fs[p] = NoFile THEN "created" ELSE "modified", FALSE)
       ELSE UNCHANGED <<queue, emitted, count>>
    /\ running' \in RereadBody(p, c)
    /\ UNCHANGED <<files, s3_prefix, last, store, alive, stopFlag, watch, mainPc>>
    /\ UNCHANGED <<env, exit, ops, probe>>

\* A modified event for a file whose content did not change (a second
\* notification of one save, a touch, a change of permissions).
FsTouch(p) ==
    /\ fs[p] # NoFile
    /\ watch
    /\ Emit(p, "modified", FALSE)
    /\ UNCHANGED <<files, fs, s3_prefix, running, last, store, alive, stopFlag,
                   watch, mainPc>>
    /\ UNCHANGED <<env, exit, ops, probe>>

\* A file is deleted or moved away.  The deleted event reaches on_deleted,
\* which S3FileHandler does not override: nothing is queued for it here.
FsDelete(p) ==
    /\ mainPc \in {"loop", "joining"}
    /\ fs[p] # NoFile
    /\ fs' = [fs EXCEPT ![p] = NoFile]
    /\ UNCHANGED <<files, s3_prefix, queue, running, last, store, emitted, count, alive, stopFlag, watch, mainPc>>
    /\ UNCHANGED <<env, exit, ops, probe>>

\* A created or modified event for a directory.
DirEvent(d, kind) ==
    /\ watch
    /\ Emit(d, kind, TRUE)
    /\ UNCHANGED <<files, fs, s3_prefix, running, last, store, alive, stopFlag,
                   watch, mainPc>>
    /\ UNCHANGED <<env, exit, ops, probe>>

\* A variant of DispatcherFree: the handler hands the upload to another thread
\* and returns, so that the observer thread takes the next event at once.
DispatcherFreeAsync == TRUE

\* ------------------------------------------------------------- the handler
\* The threads that run handler calls, hence uploads: the observer thread of
\* the one Observer main creates (lines 286-299); there is no worker pool.
WorkerThreads == 1

\* A variant of DispatcherFree: handler calls run on a pool of two threads.
DispatcherFreePoolOfTwo == Cardinality(running) < WorkerThreads + 1

\* A variant of DispatcherFree: uploads run on a worker pool, and the next event
\* is taken unless an upload for the same file is in progress.
DispatcherFreePerFile ==
    \A h \in running : queue # <<>> => h.ev.src_path # Head(queue).src_path

\* The observer thread calls the handler synchronously (lines 73, 80, 102): it
\* takes the next event only when the previous call has returned.
DispatcherFree == running = {}

\* A variant of Skipped: an event is also dropped when a later event for the
\* same file is already queued (superseded, as under a debounce window).
SkippedSuperseded(ev) ==
    \/ ev.is_directory
    \/ \E i \in 1..Len(queue) : queue[i].id # ev.id /\ queue[i].src_path = ev.src_path

\* A variant of Skipped: an event that arrived during an upload for its key is
\* also dropped.
SkippedBusy(ev) == ev.is_directory \/ ev.busy # 0

\* A variant of Skipped: on_modified lacks the is_directory test.
SkippedCreatedOnly(ev) == ev.is_directory /\ ev.kind = "created"

\* A variant of Skipped: a file whose last upload failed permanently is
\* ignored from then on.
SkippedAfterFailure(ev) == ev.is_directory \/ count[ev.src_path].res = "permanent"

\* A variant of Skipped: on_modified does not upload.
SkippedModified(ev) == ev.is_directory \/ ev.kind = "modified"

\* on_created / on_modified return without handling the event (lines 72, 79):
\* only for a directory.
Skipped(ev) == ev.is_directory

\* The class of what put_object did.
Class(r) ==
    IF r \in PermanentErrors THEN "permanent"
    ELSE IF r \in TransientErrors THEN "transient" ELSE r

\* Bookkeeping: an event for a file ended with n put_object calls the last of
\* which ended with r, or, when n = 0, without a call.
Counted(ev, n, r) ==
    IF ev.is_directory THEN count
    ELSE [count EXCEPT ![ev.src_path] =
            IF n = 0 THEN [@ EXCEPT !.dropped = @ + 1]
            ELSE [@ EXCEPT !.puts = @ + n, !.res = Class(r)]]

\* on_created / on_modified (lines 68-80): the observer thread takes the next
\* event; a directory event returns at once, a file event enters
\* _handle_file_event.
Dispatch ==
    /\ queue # <<>>
    /\ alive
    /\ ~stopFlag
    /\ DispatcherFree
    /\ LET ev == Head(queue) IN
         /\ queue' = Tail(queue)
         /\ IF Skipped(ev)
            THEN /\ last' = Outcome(ev, "", "", NoFile, 0, "skipped", 0)
                 /\ count' = Counted(ev, 0, "none")
                 /\ UNCHANGED running
            ELSE /\ running' = running \cup
                       {[ev |-> ev, pc |-> "stat", key |-> "", ctype |-> "",
                         body |-> NoFile, calls |-> 0]}
                 /\ UNCHANGED <<last, count>>
    /\ UNCHANGED <<files, fs, s3_prefix, store, emitted, alive, stopFlag, watch,
                   mainPc>>
    /\ UNCHANGED <<env, exit, ops, probe>>

\* A variant of StatErrorCaught: no except clause around stat.
StatErrorUncaught == FALSE

\* The except clause of _handle_file_event (lines 104-105) catches what stat
\* raises: the error is logged and the call returns.
StatErrorCaught == TRUE

\* _handle_file_event up to the call of _upload_to_s3 (lines 90-102): stat the
\* file and compute the key.  stat raises FileNotFoundError for a file that is
\* gone; uncaught, the exception would end the observer thread.
Stat(h) ==
    /\ h.pc = "stat"
    /\ IF fs[h.ev.src_path] = NoFile
       THEN /\ running' = running \ {h}
            /\ last' = Outcome(h.ev, "", "", NoFile, 0, "stat_not_found",
                               IF StatErrorCaught THEN 1 ELSE 0)
            /\ alive' = StatErrorCaught
            /\ count' = Counted(h.ev, 0, "none")
       ELSE /\ running' = (running \ {h}) \cup
                  {[h EXCEPT !.pc = "open", !.key = KeyOf[s3_prefix, h.ev.src_path]]}
            /\ UNCHANGED <<last, alive, count>>
    /\ UNCHANGED <<files, fs, s3_prefix, queue, store, emitted, stopFlag, watch,
                   mainPc>>
    /\ UNCHANGED <<env, exit, ops, probe>>

\* A variant of PutArgs: ContentType is not passed, and S3 stores its default.
PutArgsNoContentType(h) ==
    [Key |-> h.key, Body |-> fs[h.ev.src_path], ContentType |-> "binary/octet-stream"]

\* A variant of PutArgs: the content type is resolved for created files only.
PutArgsByKind(h) ==
    [Key |-> h.key, Body |-> fs[h.ev.src_path],
     ContentType |-> IF h.ev.kind = "created" THEN ContentTypeOf[h.ev.src_path]
                     ELSE "application/octet-stream"]

\* A variant of PutArgs: the content type resolved for the previous upload is
\* kept when there is one.
PutArgsStaleType(h) ==
    [Key |-> h.key, Body |-> fs[h.ev.src_path],
     ContentType |-> IF last.ctype # "" THEN last.ctype ELSE ContentTypeOf[h.ev.src_path]]

\* The arguments of put_object (lines 118-127): the key computed by the caller,
\* the open file as body, the content type resolved from the path.
PutArgs(h) ==
    [Key |-> h.key, Body |-> fs[h.ev.src_path], ContentType |-> ContentTypeOf[h.ev.src_path]]

\* A variant of UploadOps: the object is read back after the write.
UploadOpsReadBack == {"put_object", "head_object"}

\* The S3 operations _upload_to_s3 calls (lines 116-133): put_object only.
UploadOps == {"put_object"}

\* _upload_to_s3 up to the call of put_object (lines 116-127): resolve the
\* content type, open the file, call put_object.  open raises FileNotFoundError
\* for a file that is gone (lines 143-144).
Open(h) ==
    /\ h.pc = "open"
    /\ IF fs[h.ev.src_path] = NoFile
       THEN /\ running' = running \ {h}
            /\ last' = Outcome(h.ev, h.key, ContentTypeOf[h.ev.src_path],
                               NoFile, 0, "open_not_found", 1)
            /\ count' = Counted(h.ev, 0, "none")
       ELSE /\ running' = (running \ {h}) \cup
                  {[h EXCEPT !.pc = "put", !.key = PutArgs(h).Key,
                             !.ctype = PutArgs(h).ContentType,
                             !.body = PutArgs(h).Body, !.calls = @ + 1]}
            /\ UNCHANGED <<last, count>>
    /\ UNCHANGED <<files, fs, s3_prefix, queue, store, emitted, alive, stopFlag,
                   watch, mainPc>>
    /\ ops' = (IF fs[h.ev.src_path] = NoFile THEN ops ELSE ops \cup UploadOps)
    /\ UNCHANGED <<env, exit, probe>>

\* A variant of ErrorsLogged: the branches for the known error codes fall
\* through to the generic record.
ErrorsLoggedTwice(r) ==
    IF r = "ok" THEN 0 ELSE IF r \in PermanentErrors THEN 2 ELSE 1

\* The number of error records logged for a put_object that ended with r: none
\* on success (lines 129-133), one in every except branch (lines 135-146).
ErrorsLogged(r) == IF r = "ok" THEN 0 ELSE 1

\* A variant of Retries: a retry loop around put_object for transient errors.
RetriesTransient(h, r) == r \in TransientErrors /\ h.calls < maxAttempts

\* A variant of Retries: put_object is called once more after it succeeded.
RetriesAfterSuccess(h, r) == r = "ok" /\ h.calls < 2

\* Whether _upload_to_s3 calls put_object again after it ended with r: there is
\* no loop around the call, and every except branch only logs (lines 135-146).
Retries(h, r) == FALSE

\* A variant of PutErrorCaught: _upload_to_s3 has no except Exception clause,
\* so that an exception that is not a ClientError leaves the handler.
PutErrorUncaughtGeneric(r) == r # "ConnectionError"

\* Whether what put_object raised is caught inside _upload_to_s3: ClientError
\* (line 135), FileNotFoundError (line 143), and every other exception (line
\* 145; what escaped would be caught at line 104).
PutErrorCaught(r) == TRUE

\* put_object returns or raises (lines 122-146).  On success the bucket holds
\* the body under the key; on every error the handler logs one record and
\* returns.
PutReturn(h, r) ==
    /\ h.pc = "put"
    /\ alive' = (alive /\ PutErrorCaught(r))
    /\ store' = IF r = "ok"
                THEN [store EXCEPT ![h.key] = [body |-> h.body, ctype |-> h.ctype]]
                ELSE store
    /\ IF Retries(h, r)
       THEN /\ running' = (running \ {h}) \cup {[h EXCEPT !.calls = @ + 1]}
            /\ UNCHANGED <<last, count>>
       ELSE /\ running' = running \ {h}
            /\ last' = Outcome(h.ev, h.key, h.ctype, h.body, h.calls, r, ErrorsLogged(r))
            /\ count' = Counted(h.ev, h.calls, r)
    /\ UNCHANGED <<files, fs, s3_prefix, queue, emitted, stopFlag, watch, mainPc>>
    /\ UNCHANGED <<env, exit, ops, probe>>

\* A variant of StopRequested: observer.stop() is not called before join.
StopRequestedNoStop ==
    /\ mainPc = "loop"
    /\ mainPc' = "joining"
    /\ UNCHANGED <<files, fs, s3_prefix, queue, running, last, store, emitted, count,
                   alive, stopFlag, watch>>
    /\ UNCHANGED <<env, exit, ops, probe>>

\* ------------------------------------------------------------- main thread
\* main leaves through sys.exit(1).
Fail(why) ==
    /\ mainPc' = "failed"
    /\ exit' = Exited(ExitStatus(why))

\* len(sys.argv) (line 245): the script name, the watch path, the bucket name
\* and, for a run with a prefix, the prefix.
Argc == IF s3_prefix = "" THEN 3 ELSE 4

\* The check of the arguments (lines 245-259).
CheckArgs(argc) ==
    /\ mainPc = "args"
    /\ argc >= 3 => argc = Argc
    /\ env' = [env EXCEPT !.argc = argc]
    /\ IF argc < 3 THEN Fail("usage") ELSE mainPc' = "path" /\ UNCHANGED exit
    /\ UNCHANGED <<files, fs, s3_prefix, queue, running, last, store, emitted, count,
                   alive, stopFlag, watch, ops, probe>>

\* A variant of PathOk: only os.path.exists is tested.
PathOkExists(kind) == kind # "missing"

\* os.path.exists and os.path.isdir of the watch path (lines 262, 266).
PathOk(kind) == kind = "dir"

\* The validation of the watch path (lines 261-268).
CheckPath(kind) ==
    /\ mainPc = "path"
    /\ env' = [env EXCEPT !.watch_path = kind]
    /\ IF PathOk(kind) THEN mainPc' = "client" /\ UNCHANGED exit ELSE Fail("watch_path")
    /\ UNCHANGED <<files, fs, s3_prefix, queue, running, last, store, emitted, count,
                   alive, stopFlag, watch, ops, probe>>

\* How create_s3_client ends: it returns the client, or list_buckets raises
\* NoCredentialsError or a ClientError, or the account lists no bucket
\* (IndexError on ['Buckets'][0]), or head_bucket of the first bucket raises.
ClientOutcomes == {"ok", "NoCredentialsError", "ListClientError", "IndexError",
                   "HeadClientError"}

\* The S3 operations create_s3_client calls before it ends (line 197).
ClientOps(out) ==
    IF out \in {"ok", "HeadClientError"} THEN {"list_buckets", "head_bucket"}
    ELSE {"list_buckets"}

\* A variant of ClientCreated: the connection test of line 197 is left out.
ClientCreatedWithoutTest(out) == out \in {"ok", "IndexError", "HeadClientError"}

\* create_s3_client returns the client (line 199) only when nothing was
\* raised by boto3.client, list_buckets, ['Buckets'][0] and head_bucket.
ClientCreated(out) == out = "ok"

\* create_s3_client (lines 183-210) as called by main (line 276): every
\* exception is logged and raised again, and main exits with 1 (lines 311-316).
CreateS3Client(out) ==
    /\ mainPc = "client"
    /\ env' = [env EXCEPT !.client = out]
    /\ ops' = ops \cup ClientOps(out)
    /\ IF ClientCreated(out) THEN mainPc' = "bucket" /\ UNCHANGED exit
       ELSE Fail(IF out = "NoCredentialsError" THEN "credentials" ELSE "client")
    /\ UNCHANGED <<files, fs, s3_prefix, queue, running, last, store, emitted, count,
                   alive, stopFlag, watch, probe>>

\* How head_bucket of the target bucket ends (lines 224-235): it returns, or
\* raises ClientError with a code, or raises another exception.
BucketOutcomes == {"ok", "NoSuchBucket", "AccessDenied", "404", "EndpointConnectionError"}

\* A variant of BucketValid: a bucket that answers AccessDenied is accepted.
BucketValidLenient(out) == out \in {"ok", "AccessDenied"}

\* validate_bucket returns True (line 226) only when head_bucket returned.
BucketValid(out) == out = "ok"

\* validate_bucket (lines 212-235) as called by main (lines 279-280): False
\* for a ClientError, and main exits with 1; another exception reaches the
\* except clause of main (lines 314-316).
ValidateBucket(out) ==
    /\ mainPc = "bucket"
    /\ env' = [env EXCEPT !.bucket = out]
    /\ ops' = ops \cup {"head_bucket"}
    /\ IF BucketValid(out) THEN mainPc' = "start" /\ UNCHANGED exit ELSE Fail("bucket")
    /\ UNCHANGED <<files, fs, s3_prefix, queue, running, last, store, emitted, count,
                   alive, stopFlag, watch, probe>>

\* The handler is constructed, the watch is scheduled and the observer thread
\* started (lines 283-299); main enters its loop (lines 302-304).  An error of
\* schedule or start (the watch cannot be registered) reaches the except
\* clause of main (lines 314-316).
StartObserver(ok) ==
    /\ mainPc = "start"
    /\ IF ok THEN mainPc' = "loop" /\ watch' = TRUE /\ UNCHANGED exit
       ELSE Fail("observer") /\ UNCHANGED watch
    /\ UNCHANGED <<files, fs, s3_prefix, queue, running, last, store, emitted, count,
                   alive, stopFlag, env, ops, probe>>

\* KeyboardInterrupt in the loop of lines 302-304, then observer.stop() (lines
\* 305-307): the observer thread is told to stop and the watch is released.
StopRequested ==
    /\ mainPc = "loop"
    /\ mainPc' = "joining"
    /\ stopFlag' = TRUE
    /\ watch' = FALSE
    /\ UNCHANGED <<files, fs, s3_prefix, queue, running, last, store, emitted, count, alive>>
    /\ UNCHANGED <<env, exit, ops, probe>>

\* The observer thread has ended: it ends after observer.stop(), once the
\* handler call in progress has returned, or when an exception left a handler.
ObserverEnded == running = {} /\ (stopFlag \/ ~alive)

\* A variant of Joined: "File monitor stopped" is logged without join.
JoinedNoWait ==
    /\ mainPc = "joining"
    /\ mainPc' = "stopped"
    /\ UNCHANGED <<files, fs, s3_prefix, queue, running, last, store, emitted, count,
                   alive, stopFlag, watch>>
    /\ exit' = Exited(ExitStatus("interrupt"))
    /\ UNCHANGED <<env, ops, probe>>

\* observer.join() returns when the observer thread has ended; "File monitor
\* stopped" is logged (lines 308-309).
Joined ==
    /\ mainPc = "joining"
    /\ ObserverEnded
    /\ mainPc' = "stopped"
    /\ UNCHANGED <<files, fs, s3_prefix, queue, running, last, store, emitted, count, alive, stopFlag, watch>>
    /\ exit' = Exited(ExitStatus("interrupt"))
    /\ UNCHANGED <<env, ops, probe>>

Next ==
    \/ \E p \in files, c \in Contents : FsWrite(p, c)
    \/ \E p \in files : FsTouch(p)
    \/ \E p \in files : FsDelete(p)
    \/ \E d \in Dirs, k \in {"created", "modified"} : DirEvent(d, k)
    \/ Dispatch
    \/ \E h \in running : Stat(h)
    \/ \E h \in running : Open(h)
    \/ \E h \in running, r \in Responses : PutReturn(h, r)
    \/ \E argc \in 1..4 : CheckArgs(argc)
    \/ \E kind \in {"missing", "file", "dir"} : CheckPath(kind)
    \/ \E out \in ClientOutcomes : CreateS3Client(out)
    \/ \E out \in BucketOutcomes : ValidateBucket(out)
    \/ \E ok \in BOOLEAN : StartObserver(ok)
    \/ StopRequested
    \/ Joined

Spec == Init /\ [][Next]_vars

\* The observer thread runs whenever it can, put_object returns or raises in
\* finite time (botocore's timeouts), and join returns once the thread ended.
Fairness ==
    /\ WF_vars(Dispatch)
    /\ WF_vars(\E h \in running : Stat(h))
    /\ WF_vars(\E h \in running : Open(h))
    /\ WF_vars(\E h \in running, r \in Responses : PutReturn(h, r))
    /\ WF_vars(Joined)

FairSpec == Init /\ [][Next]_vars /\ Fairness

\* ---------------------------------------------------------- pure functions
\* The paths _get_content_type is applied to: a directory part, a stem and an
\* extension as typed.  final is the lower-case form of the extension of the
\* whole name as pathlib defines it ("" when the name has none): the typed
\* extension in lower case, or the stem's own when nothing is appended; a name
\* that only begins with a dot, or ends with one, has no extension.
ProbeDirs == {"", "d/", "v1.2/"}
ProbeStems ==
    {[stem |-> "b", own |-> ""], [stem |-> "c", own |-> ""],
     [stem |-> ".env", own |-> ""], [stem |-> "x.tar", own |-> ".tar"],
     [stem |-> "", own |-> ""]}
ProbeExts ==
    {[ext |-> e, lower |-> e] :
        e \in {".txt", ".json", ".xml", ".html", ".css", ".js", ".jpg", ".jpeg",
               ".png", ".gif", ".pdf", ".doc", ".docx", ".xls", ".xlsx", ".zip",
               ".tar", ".gz", ".yaml", ".py", ".md", ".jso", ".txtx", ""}}
    \cup {[ext |-> ".TXT", lower |-> ".txt"], [ext |-> ".Json", lower |-> ".json"],
          [ext |-> ".PNG", lower |-> ".png"], [ext |-> ".JPeG", lower |-> ".jpeg"],
          [ext |-> ".Gz", lower |-> ".gz"], [ext |-> ".YAML", lower |-> ".yaml"],
          [ext |-> ".MD", lower |-> ".md"], [ext |-> ".", lower |-> ""]}
ContentTypeProbe(d, st, x) ==
    [fn |-> "content_type", dir |-> d, stem |-> st.stem, ext |-> x.ext,
     final |-> IF x.ext = "" THEN st.own
               ELSE IF st.stem = "" THEN "" ELSE x.lower,
     arg |-> d \o st.stem \o x.ext, res |-> "", done |-> FALSE]
ContentTypeProbes ==
    {ContentTypeProbe(t[1], t[2], t[3]) :
        t \in {u \in ProbeDirs \X ProbeStems \X ProbeExts :
                  u[2].stem # "" \/ Len(u[3].ext) > 1}}

\* _get_content_type is called with the probe's path and returns.
ResolveContentType ==
    /\ probe.fn = "content_type"
    /\ ~probe.done
    /\ probe' = [probe EXCEPT !.res = GetContentType(probe.arg), !.done = TRUE]
    /\ UNCHANGED <<files, fs, s3_prefix, queue, running, last, store, emitted, count,
                   alive, stopFlag, watch, mainPc, env, exit, ops>>

PureInit == ProcessInit /\ probe \in ContentTypeProbes
PureNext == ResolveContentType
PureSpec == PureInit /\ [][PureNext]_vars

\* ---- S3FileHandler.__init__ and the key of _handle_file_event on their own
\* The s3_prefix argument is a value that ends with no '/', followed by some
\* '/' characters; the bucket name is any name.
PrefixStems == {"", "up", "a/b", "logs", "/x", "a//b"}
PrefixTails == {"", "/", "//", "///"}
PrefixBuckets == {"my-bucket", "other"}
PrefixFiles ==
    {[path |-> "a.txt", name |-> "a.txt"], [path |-> "d/a.txt", name |-> "a.txt"],
     [path |-> "d/e/b.JSON", name |-> "b.JSON"]}
NoHandler == [bucket_name |-> "", s3_prefix |-> ""]
PrefixProbes ==
    {[fn |-> "prefix", stem |-> st, tail |-> tl, arg |-> st \o tl, bucket |-> b,
      file |-> f, handler |-> NoHandler, key |-> "", Bucket |-> "",
      done |-> FALSE, keyed |-> FALSE] :
        st \in PrefixStems, tl \in PrefixTails, b \in PrefixBuckets, f \in PrefixFiles}

\* S3FileHandler(s3_client, bucket_name, s3_prefix) (lines 62-64).
Construct ==
    /\ probe.fn = "prefix"
    /\ ~probe.done
    /\ probe' = [probe EXCEPT
                   !.handler = [bucket_name |-> probe.bucket,
                                s3_prefix |-> NormalizePrefix(probe.arg)],
                   !.done = TRUE]
    /\ UNCHANGED <<files, fs, s3_prefix, queue, running, last, store, emitted, count,
                   alive, stopFlag, watch, mainPc, env, exit, ops>>

\* _handle_file_event builds the key (line 97) and _upload_to_s3 names the
\* bucket (line 123); neither assigns to the handler's fields.
HandleProbe ==
    /\ probe.fn = "prefix"
    /\ probe.done
    /\ ~probe.keyed
    /\ probe' = [probe EXCEPT
                   !.key = S3Key(probe.handler.s3_prefix, probe.file.path),
                   !.Bucket = probe.handler.bucket_name,
                   !.keyed = TRUE]
    /\ UNCHANGED <<files, fs, s3_prefix, queue, running, last, store, emitted, count,
                   alive, stopFlag, watch, mainPc, env, exit, ops>>

PrefixInit == ProcessInit /\ probe \in PrefixProbes
PrefixNext == Construct \/ HandleProbe
PrefixSpec == PrefixInit /\ [][PrefixNext]_vars

\* ------------------------------------------------------------------ claims
\* The uploads (put_object calls) executing for key k.
Uploads(k) == {h \in running : h.pc = "put" /\ h.key = k}

\* The events for file p that are queued or being handled.
Pending(p) ==
    Cardinality({i \in 1..Len(queue) : ~queue[i].is_directory /\ queue[i].src_path = p})
    + Cardinality({h \in running : h.ev.src_path = p})

\* C1: for every remote key, at most one put_object call for that key is
\* executing at any time, whatever events arrive for whatever files.
C1Theorem == \A k \in DOMAIN store : Cardinality(Uploads(k)) <= 1

\* An upload for a key is executing while another event for the same key waits.
C1Witness ==
    \E h \in running :
        /\ h.pc = "put"
        /\ \E i \in 1..Len(queue) :
              ~queue[i].is_directory /\ S3Key(s3_prefix, queue[i].src_path) = h.key

\* C2 as stated: two or more events on one path (the handler reads no clock, so
\* every run is also a run in which they all arrive within one debounce
\* window), all handled with the file in place, produce exactly one put_object
\* call.
C2Original ==
    \A p \in files :
        (count[p].events >= 2 /\ Pending(p) = 0 /\ count[p].dropped = 0)
            => count[p].puts = 1

\* C2 as amended: every event on a path produces its own put_object call,
\* exactly one, unless the file is gone when the handler stats or opens it; only
\* directory events are skipped; n events produce n calls.  The body of the call
\* made last is the file's final content.
C2Theorem ==
    /\ \A p \in files : count[p].events = count[p].puts + count[p].dropped + Pending(p)
    /\ last.res \in Responses => last.calls = 1
    /\ last.res \in NotFound \cup {"skipped"} => last.calls = 0
    /\ last.res = "skipped" => last.ev.is_directory
    /\ (/\ last.res \in Responses
        /\ watch
        /\ Pending(last.ev.src_path) = 0
        /\ fs[last.ev.src_path] # NoFile) => last.body = fs[last.ev.src_path]

\* Two events on one path were handled and two put_object calls were made.
C2Witness == \E p \in files : count[p].events = 2 /\ count[p].puts = 2 /\ Pending(p) = 0

\* C3 as stated: a change whose put_object fails transiently ends after exactly
\* maxAttempts put_object calls.
C3Original == last.res \in TransientErrors => last.calls = maxAttempts

\* C3 as amended: a change whose put_object fails transiently ends after exactly
\* one put_object call, with one error logged; no handler call ever makes a
\* second put_object call.
C3Theorem ==
    /\ last.res \in TransientErrors => last.calls = 1 /\ last.errs = 1
    /\ \A h \in running : h.calls <= 1 /\ (h.pc = "put" <=> h.calls = 1)

\* A handler call ended with a transient error of put_object.
C3Witness == last.res \in TransientErrors /\ running = {}

\* C4: a put_object that fails with AccessDenied or NoSuchBucket is not
\* retried: the handler call made exactly one put_object call and logged
\* exactly one error.
C4Theorem == last.res \in PermanentErrors => last.calls = 1 /\ last.errs = 1

\* A handler call ended with AccessDenied, another with NoSuchBucket.
C4Witness == last.res = "AccessDenied" /\ running = {} /\ count[last.ev.src_path].puts = 1

\* Every delivered event has been handled and the monitor is running.
Quiescent == watch /\ alive /\ queue = <<>> /\ running = {}

\* An event for file p was delivered.
Changed(p) == count[p].events > 0

\* The bucket holds file p's content and content type under p's key.
Mirrored(p) ==
    store[s3_prefix \o PathName(p)] = [body |-> fs[p], ctype |-> GetContentType(p)]

\* No other file for which an event was delivered has p's name, hence p's key.
NoCollision(p) == \A q \in files \ {p} : PathName(q) = PathName(p) => ~Changed(q)

C5Safety ==
    Quiescent =>
        \A p \in files :
            (Changed(p) /\ fs[p] # NoFile /\ count[p].res = "ok" /\ NoCollision(p))
                => Mirrored(p)

C6Theorem ==
    /\ [](\A h \in running : h.ev.busy # 0 => \A g \in running : g.ev.id # h.ev.busy)
    /\ [](last.ev.busy # 0 =>
            /\ last.res \in Responses \cup NotFound
            /\ last.res \in Responses => last.calls = 1
            /\ last.res = "ok" =>
                  /\ store[last.key] = [body |-> last.body, ctype |-> last.ctype]
                  /\ (watch /\ Pending(last.ev.src_path) = 0 /\ fs[last.ev.src_path] # NoFile)
                        => last.body = fs[last.ev.src_path])
    /\ \A n \in 1..MaxEvents :
          (\E i \in 1..Len(queue) : queue[i].id = n /\ queue[i].busy # 0)
              ~> (stopFlag \/ last.ev.id = n)

\* An event arrived during an upload for its key, and its own upload wrote the
\* newer content to the bucket.
C6Witness ==
    /\ last.ev.busy # 0
    /\ last.res = "ok"
    /\ last.body = "v2"
    /\ store[last.key].body = "v2"

\* The key is the prefix followed by the final component of the path.
KeyOk(key, path) ==
    LET n    == Len(s3_prefix)
        name == SubSeq(key, n + 1, Len(key))
        cut  == Len(path) - Len(name)
    IN  /\ Len(key) > n
        /\ SubSeq(key, 1, n) = s3_prefix
        /\ \A i \in 1..Len(name) : SubSeq(name, i, i) # "/"
        /\ cut >= 0
        /\ SubSeq(path, cut + 1, Len(path)) = name
        /\ cut > 0 => SubSeq(path, cut, cut) = "/"

\* C7: the key of an upload is the handler's prefix followed by the file name
\* (the final component of the path), and every event for one path gets the
\* same key.
C7Theorem ==
    /\ \A h \in running : h.pc \in {"open", "put"} => KeyOk(h.key, h.ev.src_path)
    /\ last.res \in Responses \cup {"open_not_found"} => KeyOk(last.key, last.ev.src_path)
    /\ \A h \in running :
          (/\ h.pc \in {"open", "put"}
           /\ last.res \in Responses \cup {"open_not_found"}
           /\ last.ev.src_path = h.ev.src_path) => h.key = last.key
    /\ \A k \in DOMAIN store :
          store[k] # NoObject => \E p \in files : Changed(p) /\ KeyOk(k, p)

\* Two events for one file of a subdirectory: the first was uploaded, the
\* second is being uploaded, under the same key.
C7Witness ==
    /\ last.res = "ok"
    /\ last.ev.src_path = "d/a.txt"
    /\ last.key = "up/a.txt"
    /\ \E h \in running : h.pc = "put" /\ h.ev.src_path = "d/a.txt" /\ h.key = "up/a.txt"

\* A stop was requested (KeyboardInterrupt reached main's except clause).
StopAsked == mainPc \in {"joining", "stopped"}

C9Theorem ==
    /\ StopAsked ~> (mainPc = "stopped")
    /\ [](mainPc = "stopped" => running = {})

\* The monitor reported stopped after an upload ended, with an event left
\* undelivered.
C9Witness == mainPc = "stopped" /\ last.res \in Responses /\ queue # <<>>

\* C10: an event whose file is gone when the handler stats or opens it ends
\* with no put_object call and one logged error, and the observer thread
\* survives it.
C10Theorem ==
    /\ last.res \in NotFound => last.calls = 0 /\ last.errs = 1
    /\ alive
    /\ \A p \in files : count[p].puts + count[p].dropped + Pending(p) = count[p].events

\* An event was dropped for a vanished file, and a later event was uploaded.
C10Witness ==
    /\ last.res = "ok"
    /\ \E p \in files : count[p].dropped = 1

\* The handler call that returned last ended with an error: the file was gone,
\* or put_object raised.
Failed(o) == o.res \in NotFound \cup (Responses \ {"ok"})

\* C11: whatever stat, open or put_object raise, the handler logs one error
\* record and returns, so that the observer thread stays alive and takes the
\* next queued event as soon as the call has returned, also after a permanent
\* store error for another file.
C11Theorem ==
    /\ alive
    /\ Failed(last) => last.errs = 1
    /\ (queue # <<>> /\ running = {} /\ ~stopFlag) => ENABLED Dispatch

\* A permanent store error for one file, then a successful upload of another.
C11Witness ==
    \E p \in files, q \in files :
        /\ p # q
        /\ count[p].res = "permanent"
        /\ last.res = "ok"
        /\ last.ev.src_path = q

\* C12: a directory event never enters _handle_file_event: no handler call is
\* in progress for it, and it ends without a key, without a content type and
\* without a put_object call; only events for files reach stat, the key and
\* put_object.
C12Theorem ==
    /\ \A h \in running : ~h.ev.is_directory /\ h.ev.src_path \in files
    /\ last.ev.is_directory =>
          /\ last.res = "skipped"
          /\ last.calls = 0
          /\ last.key = "" /\ last.ctype = "" /\ last.body = NoFile
    /\ last.res \in Responses \cup NotFound => ~last.ev.is_directory

\* A directory event was delivered to on_created / on_modified and returned,
\* with nothing in the bucket.
C12Witness ==
    /\ last.ev.is_directory
    /\ last.ev.src_path \in Dirs
    /\ last.res = "skipped"
    /\ \A k \in DOMAIN store : store[k] = NoObject

\* C13: for every path _get_content_type returns the table entry of the
\* lower-cased final extension of the name when the table has it, and
\* application/octet-stream otherwise (unknown extension such as .yaml, .py or
\* .md, no extension, a name that only begins or ends with a dot); the case of
\* the extension and the directories of the path make no difference.
C13Theorem ==
    probe.done =>
        /\ probe.final \in DOMAIN content_types => probe.res = content_types[probe.final]
        /\ probe.final \notin DOMAIN content_types => probe.res = "application/octet-stream"
        /\ probe.final \in {".yaml", ".py", ".md", ""} => probe.res = "application/octet-stream"
        /\ probe.arg \in {"b.json", "d/b.Json"} => probe.res = "application/json"
        /\ probe.arg \in {"c.png", "v1.2/c.PNG"} => probe.res = "image/png"
        /\ probe.arg \in {"v1.2/b", ".env", "d/b.", ".json"} => probe.res = "application/octet-stream"

\* An extension typed in upper case in a dotted directory was resolved from
\* the table.
C13Witness ==
    /\ probe.done
    /\ probe.arg = "v1.2/x.tar.Gz"
    /\ probe.res = "application/gzip"

\* The watch path was found missing or not a directory.
BadWatchPath == env.watch_path \in {"missing", "file"}

\* Nothing was uploaded and nothing is in progress.
NothingUploaded ==
    /\ emitted = 0 /\ queue = <<>> /\ running = {}
    /\ \A p \in files : count[p].puts = 0
    /\ \A k \in DOMAIN store : store[k] = NoObject

\* C14: when the watch path does not exist or is not a directory, main has
\* exited at the check: no watch is registered, no S3 operation was called,
\* no upload was made, and none of these can follow.
C14Theorem ==
    BadWatchPath =>
        /\ mainPc = "failed"
        /\ exit.done
        /\ ~watch
        /\ ops = {}
        /\ env.client = "" /\ env.bucket = ""
        /\ NothingUploaded

\* The watch path is a regular file, and main has exited.
C14Witness == env.watch_path = "file" /\ mainPc = "failed" /\ exit.done

\* The startup of main met a misconfiguration.
Misconfigured ==
    \/ env.argc \in {1, 2}
    \/ BadWatchPath
    \/ env.client = "NoCredentialsError"
    \/ env.bucket \in {"NoSuchBucket", "AccessDenied", "404"}

\* C15: the process exits with code 1 for every misconfiguration (fewer than
\* two arguments, watch path missing or not a directory, no credentials, bucket
\* missing or not accessible), and with code 0 when an interrupt stops it
\* after monitoring started; it does not exit otherwise.
C15Theorem ==
    /\ Misconfigured => exit = [done |-> TRUE, code |-> 1] /\ mainPc = "failed"
    /\ mainPc = "stopped" => exit = [done |-> TRUE, code |-> 0]
    /\ (exit.done /\ exit.code = 0) =>
          /\ mainPc = "stopped"
          /\ ~Misconfigured
          /\ env.client = "ok" /\ env.bucket = "ok"
    /\ exit.done <=> mainPc \in {"failed", "stopped"}

\* The script was started with one argument and has exited with code 1.
C15Witness == env.argc = 2 /\ exit.done /\ exit.code = 1


\* The last upload for file p failed.
FailedBefore(p) == count[p].res \in {"permanent", "transient"}

\* C16: after an upload for a file has failed, a later event for the file is
\* handled like a first one: it is not skipped, and its handler call makes
\* its own first put_object call; nothing of the failure is kept.
C16Theorem ==
    /\ \A h \in running :
          FailedBefore(h.ev.src_path) => h.calls = IF h.pc = "put" THEN 1 ELSE 0
    /\ (last.ev.id > 0 /\ ~last.ev.is_directory) => last.res \in Responses \cup NotFound
    /\ last.res \in Responses => last.calls = 1 /\ last.ev.src_path \in files

\* The last upload for a file failed permanently, and the put_object call for
\* a later event for it is executing.
C16Witness ==
    \E h \in running :
        /\ h.pc = "put"
        /\ h.calls = 1
        /\ count[h.ev.src_path].res = "permanent"
        /\ count[h.ev.src_path].puts = 1

\* C17: when a file holds the bytes its previous upload carried, the next
\* upload for it calls put_object with the same key, body and content type,
\* and when that call succeeds after the previous one did, the bucket is what
\* it was.
C17Theorem ==
    [][\A h \in running :
          (/\ last.res \in Responses
           /\ last.ev.src_path = h.ev.src_path) =>
              /\ (h.pc = "open" /\ fs[h.ev.src_path] = last.body) =>
                    \A g \in running' :
                        (g.ev.id = h.ev.id /\ g.pc = "put") =>
                            g.key = last.key /\ g.body = last.body /\ g.ctype = last.ctype
              /\ (/\ h.pc = "put" /\ h.body = last.body
                  /\ last.res = "ok"
                  /\ last'.ev.id = h.ev.id /\ last'.res = "ok") =>
                    /\ last'.key = last.key /\ last'.ctype = last.ctype
                    /\ store' = store]_vars

\* A file was uploaded, and a second put_object call for it is executing with
\* the same key, bytes and content type as the object in the bucket.
C17Witness ==
    /\ last.res = "ok"
    /\ \E h \in running :
          /\ h.pc = "put"
          /\ h.ev.src_path = last.ev.src_path
          /\ h.key = last.key /\ h.body = last.body /\ h.ctype = last.ctype
          /\ store[h.key] = [body |-> h.body, ctype |-> h.ctype]

\* The file name, the content type and the key of every file of the runs.
NameOf == [p \in Paths |-> PathName(p)]
TypeOf == [p \in Paths |-> GetContentType(p)]
OwnKey == [x \in Prefixes, p \in Paths |-> x \o NameOf[p]]

\* C18: every put_object call carries the key (prefix and file name) and the
\* content type of its own file; files with different names have different
\* keys; and every event for a file gets its put_object call unless the file
\* was gone when it was handled.
C18Theorem ==
    /\ \A h \in running :
          h.pc = "put" =>
              /\ h.key = OwnKey[s3_prefix, h.ev.src_path]
              /\ h.ctype = TypeOf[h.ev.src_path]
    /\ last.res \in Responses =>
          /\ last.key = OwnKey[s3_prefix, last.ev.src_path]
          /\ last.ctype = TypeOf[last.ev.src_path]
    /\ \A p \in files, q \in files :
          NameOf[p] # NameOf[q] => OwnKey[s3_prefix, p] # OwnKey[s3_prefix, q]
    /\ \A p \in files :
          (Pending(p) = 0 /\ count[p].dropped = 0) => count[p].puts = count[p].events
    /\ \A p \in files :
          (/\ \A q \in files \ {p} : NameOf[q] = NameOf[p] => count[q].events = 0
           /\ store[OwnKey[s3_prefix, p]] # NoObject) =>
              store[OwnKey[s3_prefix, p]].ctype = TypeOf[p]

\* Two files were created and both are in the bucket, each under its own key
\* with its own content type.
C18Witness ==
    /\ "a.txt" \in files /\ "b.JSON" \in files
    /\ count["a.txt"].events = 1 /\ count["b.JSON"].events = 1
    /\ store["a.txt"] = [body |-> fs["a.txt"], ctype |-> "text/plain"]
    /\ store["b.JSON"] = [body |-> fs["b.JSON"], ctype |-> "application/json"]
    /\ fs["a.txt"] # NoFile /\ fs["b.JSON"] # NoFile

\* Monitoring has started.
Monitoring == mainPc \in {"loop", "joining", "stopped"}

\* C19: once monitoring has started the only S3 operation called is
\* put_object (list_buckets and head_bucket are called before, at startup),
\* and an upload counts as successful exactly when put_object returned: no
\* error is logged for it and the bucket holds what the call carried.
C19Theorem ==
    /\ [][Monitoring => (ops' \ ops) \subseteq {"put_object"}]_vars
    /\ [](Monitoring => {"list_buckets", "head_bucket"} \subseteq ops)
    /\ [](ops \subseteq {"list_buckets", "head_bucket", "put_object"})
    /\ []("put_object" \in ops <=>
            \/ \E h \in running : h.pc = "put"
            \/ \E p \in files : count[p].puts > 0)
    /\ [](last.res = "ok" =>
            /\ last.errs = 0 /\ last.calls = 1
            /\ store[last.key] = [body |-> last.body, ctype |-> last.ctype])

\* An upload succeeded; put_object is the only operation called since startup.
C19Witness ==
    /\ mainPc = "loop"
    /\ last.res = "ok"
    /\ ops = {"list_buckets", "head_bucket", "put_object"}

\* C20 as stated: while a put_object call is executing and the next queued
\* event is for another file, the handler for that event can start.
C20Original ==
    (/\ \E h \in running : h.pc = "put" /\ queue # <<>>
                           /\ Head(queue).src_path # h.ev.src_path
     /\ ~Head(queue).is_directory
     /\ ~stopFlag) => ENABLED Dispatch

\* C20 as amended: while a handler call is in progress (put_object executing
\* included) events are still accepted into the observer's queue and none
\* is removed from it, but no other handler call starts: at most one upload
\* is in progress at any time.
C20Theorem ==
    /\ [](Cardinality(running) <= 1)
    /\ [][running # {} =>
            /\ \A h \in running' : \E g \in running : g.ev.id = h.ev.id
            /\ Len(queue') >= Len(queue)
            /\ SubSeq(queue', 1, Len(queue)) = queue]_vars

\* A put_object call is executing while an event for another file waits in
\* the queue.
C20Witness ==
    \E h \in running :
        /\ h.pc = "put"
        /\ queue # <<>>
        /\ ~Head(queue).is_directory
        /\ Head(queue).src_path # h.ev.src_path
        /\ ~stopFlag

\* The put_object calls executing.
Executing == {h \in running : h.pc = "put"}

\* C21: the number of uploads executing at the same time never exceeds the
\* number of threads that run handler calls, which is one, however many
\* events for distinct files are waiting.
C21Theorem ==
    /\ Cardinality(Executing) <= WorkerThreads
    /\ Cardinality(running) <= WorkerThreads
    /\ \A h \in running : \A i \in 1..Len(queue) : queue[i].id > h.ev.id

\* One upload executes while all the other events delivered, for another
\* file, wait in the queue.
C21Witness ==
    /\ Cardinality(Executing) = 1
    /\ emitted = MaxEvents
    /\ Len(queue) = MaxEvents - 1
    /\ \A h \in Executing : \A i \in 1..Len(queue) :
          ~queue[i].is_directory /\ queue[i].src_path # h.ev.src_path

\* C22: a handler call is pending (stat, open: no put_object call yet), then
\* in flight (its one put_object call executing, attempt 0), then ended:
\* succeeded, failed, or dropped for a vanished file.  The number of calls
\* never decreases and grows by at most one per step; an ended call makes no
\* further put_object call (it never runs again); and every call that started
\* ends.
C22Theorem ==
    /\ [](\A h \in running :
            \/ h.pc \in {"stat", "open"} /\ h.calls = 0
            \/ h.pc = "put" /\ h.calls = 1)
    /\ [][\A h \in running : \A g \in running' :
            g.ev.id = h.ev.id =>
                /\ g.calls \in {h.calls, h.calls + 1}
                /\ h.pc = "put" => g.pc = "put"
                /\ h.pc = "open" => g.pc \in {"open", "put"}]_vars
    /\ [](\A h \in running : h.ev.id > last.ev.id)
    /\ []((last.ev.id > 0 /\ ~last.ev.is_directory) =>
            /\ last.res \in Responses \cup NotFound
            /\ last.calls = IF last.res \in Responses THEN 1 ELSE 0)
    /\ \A n \in 1..MaxEvents :
          (\E h \in running : h.ev.id = n)
              ~> (last.ev.id = n /\ \A h \in running : h.ev.id # n)

\* A handler call ended with a permanent error after its one put_object call,
\* and the call for the next event is pending.
C22Witness ==
    /\ last.res = "NoSuchBucket"
    /\ last.calls = 1
    /\ \E h \in running : h.pc = "stat" /\ h.ev.id = last.ev.id + 1

\* C24: the key is the prefix followed by the base name, whatever the
\* directory: two files with the same base name have one key between them, so
\* that the bucket has one object per base name and a successful upload of
\* either file replaces what the other left there.
C24Theorem ==
    /\ \A p \in files, q \in files :
          NameOf[p] = NameOf[q] =>
              \A h \in running :
                  (h.pc \in {"open", "put"} /\ h.ev.src_path = p) =>
                      h.key = s3_prefix \o NameOf[q]
    /\ Cardinality(DOMAIN store) = Cardinality({NameOf[p] : p \in files})
    /\ last.res = "ok" =>
          \A q \in files :
              NameOf[q] = NameOf[last.ev.src_path] =>
                  store[s3_prefix \o NameOf[q]] = [body |-> last.body, ctype |-> last.ctype]

\* a.txt was uploaded, then d/a.txt: the object under the key of a.txt now
\* holds the content of d/a.txt, which is not what a.txt holds.
C24Witness ==
    /\ "a.txt" \in files /\ "d/a.txt" \in files
    /\ count["a.txt"].res = "ok"
    /\ last.res = "ok" /\ last.ev.src_path = "d/a.txt"
    /\ fs["a.txt"] # NoFile
    /\ store["up/a.txt"].body = fs["d/a.txt"]
    /\ store["up/a.txt"].body # fs["a.txt"]

\* C25: an event for a file causes at most one put_object call, exactly one
\* when stat and open succeed and none when the file is gone; the calls made
\* for a file never outnumber its events (a failed call is not repeated
\* without a new event); and a created and a modified event are handled
\* alike: never skipped, same key and same content type for the same path.
C25Theorem ==
    /\ \A h \in running : h.calls <= 1
    /\ (last.ev.id > 0 /\ ~last.ev.is_directory) =>
          /\ last.ev.kind \in {"created", "modified"}
          /\ last.res \in Responses \cup NotFound
          /\ last.res \in Responses <=> last.calls = 1
          /\ last.res \in NotFound <=> last.calls = 0
    /\ \A p \in files :
          count[p].puts + Cardinality({h \in Executing : h.ev.src_path = p})
              <= count[p].events - Cardinality({i \in 1..Len(queue) :
                                      ~queue[i].is_directory /\ queue[i].src_path = p})
    /\ \A h \in running :
          (h.pc = "put" /\ last.res \in Responses /\ last.ev.src_path = h.ev.src_path) =>
              h.key = last.key /\ h.ctype = last.ctype

\* A created and a modified event for a file were handled, each with one
\* put_object call; the second call failed and nothing is left to run.
C25Witness ==
    /\ last.ev.kind = "modified"
    /\ last.res \in TransientErrors
    /\ count[last.ev.src_path].events = 2
    /\ count[last.ev.src_path].puts = 2
    /\ queue = <<>> /\ running = {}
    /\ emitted = 2

\* The client was created and the configured bucket validated.
StoreReady == env.client = "ok" /\ env.bucket = "ok"

\* C26: the watch is started, an event accepted and put_object called only
\* after create_s3_client returned the client and validate_bucket returned
\* True; when either fails main has exited without a watch and without an
\* upload, and stays so.
C26Theorem ==
    /\ [](watch => StoreReady)
    /\ []((emitted > 0 \/ running # {} \/ "put_object" \in ops) => StoreReady)
    /\ [][(~watch /\ watch') =>
            StoreReady /\ {"list_buckets", "head_bucket"} \subseteq ops]_vars
    /\ []((env.client \notin {"", "ok"} \/ env.bucket \notin {"", "ok"}) =>
            /\ mainPc = "failed"
            /\ ~watch
            /\ "put_object" \notin ops
            /\ NothingUploaded)
    /\ [][mainPc = "failed" => (mainPc' = "failed" /\ ~watch' /\ ops' = ops)]_vars

\* The client was created, the configured bucket does not exist, and main has
\* exited without a watch.
C26Witness ==
    /\ env.client = "ok"
    /\ env.bucket = "NoSuchBucket"
    /\ mainPc = "failed"
    /\ ~watch

\* C27: create_s3_client returns the client only after list_buckets and
\* head_bucket of the first listed bucket returned; when the account lists
\* no bucket or the first bucket is not accessible, main exits with code 1
\* and the configured bucket is never validated.
C27Theorem ==
    /\ env.client \in {"IndexError", "HeadClientError"} =>
          /\ mainPc = "failed"
          /\ exit = [done |-> TRUE, code |-> 1]
          /\ env.bucket = ""
          /\ ~watch
          /\ NothingUploaded
    /\ env.client = "ok" => {"list_buckets", "head_bucket"} \subseteq ops
    /\ env.bucket # "" => env.client = "ok"
    /\ mainPc \in {"bucket", "start", "loop", "joining", "stopped"} => env.client = "ok"

\* The account lists no bucket: main has exited with code 1 and the configured
\* bucket was not asked for.
C27Witness ==
    /\ env.client = "IndexError"
    /\ exit.done /\ exit.code = 1
    /\ env.bucket = ""
    /\ ops = {"list_buckets"}

\* C28: the handler's prefix is "" for the empty argument and, for any other
\* argument, the argument without its trailing '/' characters followed by one
\* '/': "up", "up/" and "up//" give "up/", an argument already of that form is
\* kept, an argument of '/' characters only gives "/" and keys that start with
\* '/'; building a key changes neither the stored prefix nor the bucket name.
C28Theorem ==
    /\ [](probe.done =>
            /\ probe.handler.s3_prefix = "" <=> probe.arg = ""
            /\ probe.arg # "" => probe.handler.s3_prefix = probe.stem \o "/"
            /\ probe.arg \in {"up", "up/", "up//"} => probe.handler.s3_prefix = "up/"
            /\ (probe.tail = "/" \/ probe.arg = "") => probe.handler.s3_prefix = probe.arg
            /\ probe.arg \in {"/", "//", "///"} => probe.handler.s3_prefix = "/"
            /\ probe.handler.bucket_name = probe.bucket)
    /\ [](probe.keyed =>
            /\ probe.key = probe.handler.s3_prefix \o probe.file.name
            /\ probe.Bucket = probe.bucket
            /\ probe.arg \in {"/", "//", "///"} => probe.key = "/" \o probe.file.name)
    /\ [][probe.done => probe'.handler = probe.handler]_vars

\* The prefix "//" was normalized to "/" and the key of d/a.txt is "/a.txt".
C28Witness ==
    /\ probe.keyed
    /\ probe.arg = "//"
    /\ probe.handler.s3_prefix = "/"
    /\ probe.key = "/a.txt"
    /\ probe.file.path = "d/a.txt"
====
